---- MODULE Spec2Model ----
(***************************************************************************)
(* A model of aleks.py: the Student / Cohort / CohortReporter classes and  *)
(* the normalizer functions date_group and class_group.                    *)
(*                                                                         *)
(* Python strings are sequences of one-character strings, so that lower(), *)
(* the `in` substring test, split(), replace() and int() are computed.     *)
(* Python None is the empty tuple <<>>, and a present optional value x is  *)
(* <<x>>.  A call that returns v is [ok |-> TRUE, val |-> v]; a call that  *)
(* raises is [ok |-> FALSE, err |-> <exception name>].                     *)
(***************************************************************************)
EXTENDS Integers, Sequences, FiniteSets, TLC

VARIABLES
    cohorts,         \* CohortReporter.cohorts: the Cohort objects, in dict (creation) order
    student_list,    \* CohortReporter.student_list
    cohort_list,     \* CohortReporter.cohort_list
    first,           \* read_file: the local flag `first`
    pc,              \* read_file: "reading", "done" (end of file) or "error" (an exception left it)
    total_students,  \* read_file: the local counter total_students
    total_attempts,  \* read_file: the local counter total_attempts
    stu,             \* a Student object on its own
    coh,             \* a Cohort object on its own: its students dict, in insertion order
    call             \* the last call made: its name, its arguments and what it returned

vars == <<cohorts, student_list, cohort_list, first, pc,
          total_students, total_attempts, stu, coh, call>>

reporter_vars == <<cohorts, student_list, cohort_list, first, pc,
                   total_students, total_attempts>>

(***************************************************************************)
(* Python values                                                           *)
(***************************************************************************)
None == <<>>

Some(x) == <<x>>

Return(v) == [ok |-> TRUE, val |-> v]

Raise(e) == [ok |-> FALSE, err |-> e]

NoCall == [op |-> "none"]

(***************************************************************************)
(* Python str operations                                                   *)
(***************************************************************************)
UpperChars == <<"A","B","C","D","E","F","G","H","I","J","K","L","M",
                "N","O","P","Q","R","S","T","U","V","W","X","Y","Z">>

LowerChars == <<"a","b","c","d","e","f","g","h","i","j","k","l","m",
                "n","o","p","q","r","s","t","u","v","w","x","y","z">>

DigitChars == <<"0","1","2","3","4","5","6","7","8","9">>

\* str.lower() on one character
lower_char(c) ==
    IF \E i \in 1..26 : UpperChars[i] = c
    THEN LowerChars[CHOOSE i \in 1..26 : UpperChars[i] = c]
    ELSE c

\* str.lower()
lower(s) == [i \in 1..Len(s) |-> lower_char(s[i])]

\* sub in s
Contains(sub, s) ==
    \E i \in 0..(Len(s) - Len(sub)) :
        \A j \in 1..Len(sub) : s[i + j] = sub[j]

\* s.replace(c, '') for a one-character c
Remove(s, c) == SelectSeq(s, LAMBDA ch : ch # c)

\* s.split(c) for a one-character c: the parts between the occurrences of c
Split(s, c) ==
    LET seps == {i \in 1..Len(s) : s[i] = c}
        n == Cardinality(seps)
        pos(k) == IF k = 0 THEN 0
                  ELSE IF k = n + 1 THEN Len(s) + 1
                  ELSE CHOOSE i \in seps : Cardinality({j \in seps : j < i}) = k - 1
    IN  [k \in 1..(n + 1) |-> SubSeq(s, pos(k - 1) + 1, pos(k) - 1)]

IsDigit(c) == \E i \in 1..10 : DigitChars[i] = c

DigitValue(c) == (CHOOSE i \in 1..10 : DigitChars[i] = c) - 1

RECURSIVE DigitsValue(_)
DigitsValue(s) ==
    IF Len(s) = 0 THEN 0
    ELSE 10 * DigitsValue(SubSeq(s, 1, Len(s) - 1)) + DigitValue(s[Len(s)])

\* int(s) of a string of decimal digits; anything else here raises ValueError
\* (signs, blanks and underscores are outside the texts the model feeds in)
IntOk(s) == Len(s) > 0 /\ \A i \in 1..Len(s) : IsDigit(s[i])

IntOf(s) == DigitsValue(s)

\* str(n) for n >= 0, and the zero-padded two-digit form the report writes
RECURSIVE Str(_)
Str(n) == IF n < 10 THEN <<DigitChars[n + 1]>>
          ELSE Str(n \div 10) \o <<DigitChars[(n % 10) + 1]>>

Str2(n) == IF n < 10 THEN <<"0">> \o Str(n) ELSE Str(n)

(***************************************************************************)
(* Keywords of the normalizers                                             *)
(***************************************************************************)
kw_no_data == <<"n","o"," ","d","a","t","a">>
kw_algebra == <<"a","l","g","e","b","r","a">>
kw_linear == <<"l","i","n","e","a","r">>
kw_trigonometry == <<"t","r","i","g","o","n","o","m","e","t","r","y">>
kw_geometry == <<"g","e","o","m","e","t","r","y">>
kw_precalculus == <<"p","r","e","c","a","l","c","u","l","u","s">>
kw_calculus_ii == <<"c","a","l","c","u","l","u","s"," ","i","i">>
kw_calculus_2 == <<"c","a","l","c","u","l","u","s"," ","2">>
kw_calculus_iii == <<"c","a","l","c","u","l","u","s"," ","i","i","i">>
kw_calculus_3 == <<"c","a","l","c","u","l","u","s"," ","3">>
kw_calculus == <<"c","a","l","c","u","l","u","s">>
kw_statistics == <<"s","t","a","t","i","s","t","i","c","s">>
kw_probability == <<"p","r","o","b","a","b","i","l","i","t","y">>
kw_discrete == <<"d","i","s","c","r","e","t","e">>
kw_high_school == <<"h","i","g","h"," ","s","c","h","o","o","l">>
kw_college == <<"c","o","l","l","e","g","e">>

(***************************************************************************)
(* date_group                                                              *)
(***************************************************************************)
\* date_group answering a default term for a date without three parts
date_group_default_term(date) ==
    LET parts == Split(date, "/") IN
    IF Len(parts) # 3 THEN Return(<<0, 0>>)
    ELSE IF ~(IntOk(parts[1]) /\ IntOk(parts[2]) /\ IntOk(parts[3]))
         THEN Raise("ValueError")
    ELSE LET m == IntOf(parts[1])
             d == IntOf(parts[2])
             y == IntOf(parts[3])
         IN  IF m <= 5 THEN Return(<<y % 100, 0>>)
             ELSE IF m <= 8 THEN Return(<<y % 100, 1>>)
             ELSE Return(<<(y + 1) % 100, 2>>)

\* date_group with the Spring year not rolled over
date_group_no_rollover(date) ==
    LET parts == Split(date, "/") IN
    IF Len(parts) # 3 THEN Raise("ValueError")
    ELSE IF ~(IntOk(parts[1]) /\ IntOk(parts[2]) /\ IntOk(parts[3]))
         THEN Raise("ValueError")
    ELSE LET m == IntOf(parts[1])
             y == IntOf(parts[3])
         IN  IF m <= 5 THEN Return(<<y % 100, 0>>)
             ELSE IF m <= 8 THEN Return(<<y % 100, 1>>)
             ELSE Return(<<y % 100, 2>>)

date_group(date) ==
    LET parts == Split(date, "/") IN
    IF Len(parts) # 3 THEN Raise("ValueError")
    ELSE IF ~(IntOk(parts[1]) /\ IntOk(parts[2]) /\ IntOk(parts[3]))
         THEN Raise("ValueError")
    ELSE LET m == IntOf(parts[1])
             d == IntOf(parts[2])
             y == IntOf(parts[3])
         IN  IF m <= 5 THEN Return(<<y % 100, 0>>)
             ELSE IF m <= 8 THEN Return(<<y % 100, 1>>)
             ELSE Return(<<(y + 1) % 100, 2>>)

(***************************************************************************)
(* class_group                                                             *)
(***************************************************************************)
\* class_group with an algebra rule that does not look for "linear"
class_group_no_linear(cls) ==
    IF Contains(kw_no_data, cls) \/ Len(cls) < 2 THEN -1
    ELSE IF Contains(kw_algebra, lower(cls)) THEN 1
    ELSE IF Contains(kw_trigonometry, lower(cls)) THEN 2
    ELSE IF Contains(kw_geometry, lower(cls)) THEN 3
    ELSE IF Contains(kw_precalculus, lower(cls)) THEN 4
    ELSE IF Contains(kw_calculus_ii, lower(cls)) \/ Contains(kw_calculus_2, lower(cls)) THEN 6
    ELSE IF Contains(kw_calculus_iii, lower(cls)) \/ Contains(kw_calculus_3, lower(cls)) THEN 7
    ELSE IF Contains(kw_calculus, lower(cls)) THEN 5
    ELSE IF Contains(kw_statistics, lower(cls)) \/ Contains(kw_probability, lower(cls)) THEN 8
    ELSE IF Contains(kw_discrete, lower(cls)) THEN 9
    ELSE 0

class_group(cls) ==
    IF Contains(kw_no_data, cls) \/ Len(cls) < 2 THEN -1
    ELSE IF Contains(kw_algebra, lower(cls)) /\ ~Contains(kw_linear, lower(cls)) THEN 1
    ELSE IF Contains(kw_trigonometry, lower(cls)) THEN 2
    ELSE IF Contains(kw_geometry, lower(cls)) THEN 3
    ELSE IF Contains(kw_precalculus, lower(cls)) THEN 4
    ELSE IF Contains(kw_calculus_ii, lower(cls)) \/ Contains(kw_calculus_2, lower(cls)) THEN 6
    ELSE IF Contains(kw_calculus_iii, lower(cls)) \/ Contains(kw_calculus_3, lower(cls)) THEN 7
    ELSE IF Contains(kw_calculus, lower(cls)) THEN 5
    ELSE IF Contains(kw_statistics, lower(cls)) \/ Contains(kw_probability, lower(cls)) THEN 8
    ELSE IF Contains(kw_discrete, lower(cls)) THEN 9
    ELSE 0

(***************************************************************************)
(* The state every specification starts from                               *)
(***************************************************************************)
NewStudent(name, module, last_level, last_class) ==
    [name |-> name, scores |-> <<>>, subject_scores |-> <<>>, module |-> module,
     masteries |-> <<>>, last_level |-> last_level, last_class |-> last_class]

Init ==
    /\ cohorts = <<>>
    /\ student_list = <<>>
    /\ cohort_list = <<>>
    /\ first = TRUE
    /\ pc = "reading"
    /\ total_students = 0
    /\ total_attempts = 0
    /\ stu = NewStudent("a", -1, -1, -1)
    /\ coh = <<>>
    /\ call = NoCall

(***************************************************************************)
(* date_group applied to date strings                                      *)
(***************************************************************************)
Months == 1..12

Days == {1, 15, 31}

Years == {1999, 2000, 2021, 2023, 2099}

\* "MM/DD/YYYY", or "M/D/YYYY" when not padded
FormatDate(m, d, y, pad) ==
    (IF pad THEN Str2(m) ELSE Str(m)) \o <<"/">> \o
    (IF pad THEN Str2(d) ELSE Str(d)) \o <<"/">> \o Str(y)

MalformedDates ==
    { <<"2","0","2","1","-","0","3","-","0","1">>,
      <<"0","3","/","2","0","2","1">>,
      <<"0","3","/","0","1","/","2","0","/","2","1">>,
      <<>> }

DateGroupCall ==
    /\ \E m \in Months, d \in Days, y \in Years, pad \in BOOLEAN :
         LET date == FormatDate(m, d, y, pad) IN
         call' = [op |-> "date_group", date |-> date, m |-> m, d |-> d, y |-> y,
                  ret |-> date_group(date)]
    /\ UNCHANGED <<reporter_vars, stu, coh>>

DateGroupMalformedCall ==
    /\ \E date \in MalformedDates :
         call' = [op |-> "date_group_malformed", date |-> date, ret |-> date_group(date)]
    /\ UNCHANGED <<reporter_vars, stu, coh>>

NextDate == DateGroupCall \/ DateGroupMalformedCall

SpecDate == Init /\ [][NextDate]_vars

\* C6: date_group maps every three-field date M/D/Y to a term by month only:
\* month 1..5 gives (Y mod 100, Summer = 0), month 6..8 gives (Y mod 100, Fall = 1),
\* month 9..12 gives ((Y + 1) mod 100, Spring = 2); the day never changes the result.
C6_DateGroupByMonth ==
    call.op = "date_group" =>
        /\ call.m \in 1..5  => call.ret = Return(<<call.y % 100, 0>>)
        /\ call.m \in 6..8  => call.ret = Return(<<call.y % 100, 1>>)
        /\ call.m \in 9..12 => call.ret = Return(<<(call.y + 1) % 100, 2>>)
        /\ \A d \in Days, pad \in BOOLEAN :
               date_group(FormatDate(call.m, d, call.y, pad)) = call.ret

\* a September-December date of a year ending in 99 has been mapped, and wrapped to year 0
C6_Witness ==
    /\ call.op = "date_group"
    /\ call.m = 12 /\ call.y = 2099 /\ call.d = 31
    /\ call.ret = Return(<<0, 2>>)

(***************************************************************************)
(* class_group applied to class names                                      *)
(***************************************************************************)
MaxFrags == 3

\* pieces of class names; a class name is up to MaxFrags of them in a row
ClassFrags ==
    { <<"C","a","l","c","u","l","u","s"," ">>,
      <<"c","a","l","c","u","l","u","s"," ">>,
      <<"A","P"," ">>,
      <<"C","o","l","l","e","g","e"," ">>,
      <<"L","i","n","e","a","r"," ">>,
      <<"A","l","g","e","b","r","a"," ">>,
      <<"a","l","g","e","b","r","a">>,
      <<"N","o"," ","D","a","t","a">>,
      <<"n","o"," ","d","a","t","a">>,
      <<"I","I">>,
      <<"i","i">>,
      <<"i","i","i">>,
      <<"I">>,
      <<"2">>,
      <<"3">>,
      <<"P","r","e">>,
      <<"x">>,
      <<"T","r","i","g","o","n","o","m","e","t","r","y">>,
      <<"G","e","o","m","e","t","r","y">>,
      <<"S","t","a","t","i","s","t","i","c","s">>,
      <<"p","r","o","b","a","b","i","l","i","t","y">>,
      <<"D","i","s","c","r","e","t","e"," ">> }

ClassGroupCall ==
    /\ call.nfrags < MaxFrags
    /\ \E f \in ClassFrags :
         LET text == call.text \o f IN
         call' = [op |-> "class_group", text |-> text, nfrags |-> call.nfrags + 1,
                  ret |-> class_group(text)]
    /\ UNCHANGED <<reporter_vars, stu, coh>>

InitClass ==
    /\ cohorts = <<>>
    /\ student_list = <<>>
    /\ cohort_list = <<>>
    /\ first = TRUE
    /\ pc = "reading"
    /\ total_students = 0
    /\ total_attempts = 0
    /\ stu = NewStudent("a", -1, -1, -1)
    /\ coh = <<>>
    /\ call = [op |-> "class_group", text |-> <<>>, nfrags |-> 0, ret |-> class_group(<<>>)]

NextClass == ClassGroupCall

SpecClass == InitClass /\ [][NextClass]_vars

\* the texts the Calculus rules of C5 speak about
C5_NoEarlierRule(t) ==
    /\ Len(t) >= 2
    /\ ~Contains(kw_no_data, lower(t))
    /\ ~Contains(kw_algebra, lower(t))
    /\ ~Contains(kw_trigonometry, lower(t))
    /\ ~Contains(kw_geometry, lower(t))
    /\ ~Contains(kw_precalculus, lower(t))

C5_IsCalc3(t) == Contains(kw_calculus_iii, lower(t)) \/ Contains(kw_calculus_3, lower(t))

C5_IsCalc2(t) == Contains(kw_calculus_ii, lower(t)) \/ Contains(kw_calculus_2, lower(t))

\* C5: class_group applies the specific Calculus rules before the general one: a text
\* of length >= 2 with none of "no data", "algebra", "trigonometry", "geometry",
\* "precalculus" is Calculus III (7) when it contains "calculus iii" or "calculus 3",
\* Calculus II (6) when it contains "calculus ii" or "calculus 2" but not the former,
\* and Calculus I (5) when it contains only the bare "calculus".
C5_CalculusPrecedence ==
    (call.op = "class_group" /\ C5_NoEarlierRule(call.text)) =>
        /\ C5_IsCalc3(call.text) => call.ret = 7
        /\ (C5_IsCalc2(call.text) /\ ~C5_IsCalc3(call.text)) => call.ret = 6
        /\ (Contains(kw_calculus, lower(call.text)) /\ ~C5_IsCalc2(call.text)
              /\ ~C5_IsCalc3(call.text)) => call.ret = 5

(***************************************************************************)
(* class Student                                                           *)
(***************************************************************************)
\* max(xs) of a non-empty list
Max(xs) == CHOOSE x \in {xs[i] : i \in 1..Len(xs)} : \A j \in 1..Len(xs) : xs[j] <= x

\* xs.index(v): the first position holding v
Index(xs, v) == CHOOSE i \in 1..Len(xs) : xs[i] = v /\ \A j \in 1..(i - 1) : xs[j] # v

\* log_attempt keeping the overall score without the subject scores
log_attempt_no_subjects(s, score, subjects, mastery) ==
    [s EXCEPT !.scores = Append(@, score),
              !.masteries = IF mastery # None THEN Append(@, mastery[1]) ELSE @]

\* log_attempt putting the new attempt in front of the earlier ones
log_attempt_prepend(s, score, subjects, mastery) ==
    [s EXCEPT !.scores = <<score>> \o @,
              !.subject_scores = <<subjects>> \o @,
              !.masteries = IF mastery # None THEN Append(@, mastery[1]) ELSE @]

\* Student.log_attempt
log_attempt(s, score, subjects, mastery) ==
    [s EXCEPT !.scores = Append(@, score),
              !.subject_scores = Append(@, subjects),
              !.masteries = IF mastery # None THEN Append(@, mastery[1]) ELSE @]

\* best_score taking the last attempt that reached the maximum
best_score_last_max(s, subjects) ==
    IF Len(s.scores) = 0 THEN Raise("ValueError")
    ELSE IF subjects
         THEN LET best == CHOOSE i \in 1..Len(s.scores) :
                              /\ s.scores[i] = Max(s.scores)
                              /\ \A j \in (i + 1)..Len(s.scores) : s.scores[j] # Max(s.scores)
              IN  Return(<<s.scores[best], s.subject_scores[best]>>)
         ELSE Return(Max(s.scores))

\* Student.best_score; max() of an empty list raises ValueError
best_score(s, subjects) ==
    IF Len(s.scores) = 0 THEN Raise("ValueError")
    ELSE IF subjects
         THEN LET best == Index(s.scores, Max(s.scores))
              IN  Return(<<s.scores[best], s.subject_scores[best]>>)
         ELSE Return(Max(s.scores))

\* Student.last_score; scores[0] of an empty list raises IndexError
last_score(s, subjects) ==
    IF Len(s.scores) = 0 THEN Raise("IndexError")
    ELSE IF subjects
         THEN Return(<<s.scores[1], s.subject_scores[1]>>)
         ELSE Return(s.scores[1])

\* Student.mastery_improvements
student_mastery_improvements(s, module) ==
    IF module = None \/ s.module = module[1]
    THEN [i \in 1..Len(s.masteries) |-> s.masteries[i][2] - s.masteries[i][1]]
    ELSE <<>>

(***************************************************************************)
(* A Student object and the calls made on it                               *)
(***************************************************************************)
MaxAttempts == 3

NumSubjects == 11

StudentScores == {72, 88, 95}

SubjectVectors == { [i \in 1..NumSubjects |-> 50], [i \in 1..NumSubjects |-> 5 * i] }

Masteries == { None, Some(<<40, 80>>) }

LogAttemptCall ==
    /\ Len(stu.scores) < MaxAttempts
    /\ \E score \in StudentScores, subjects \in SubjectVectors, mastery \in Masteries :
         /\ stu' = log_attempt(stu, score, subjects, mastery)
         /\ call' = [op |-> "log_attempt", score |-> score, subjects |-> subjects,
                     mastery |-> mastery]
    /\ UNCHANGED <<reporter_vars, coh>>

BestScoreCall ==
    /\ \E subjects \in BOOLEAN :
         call' = [op |-> "best_score", subjects |-> subjects,
                  ret |-> best_score(stu, subjects)]
    /\ UNCHANGED <<reporter_vars, stu, coh>>

LastScoreCall ==
    /\ \E subjects \in BOOLEAN :
         call' = [op |-> "last_score", subjects |-> subjects,
                  ret |-> last_score(stu, subjects)]
    /\ UNCHANGED <<reporter_vars, stu, coh>>

NextStudent == LogAttemptCall \/ BestScoreCall \/ LastScoreCall

SpecStudent == Init /\ [][NextStudent]_vars

\* C8: for a Student with at least one attempt, best_score() is the maximum overall
\* score over all logged attempts, and best_score(subjects=True) is that maximum with
\* the subject vector of the first attempt, in insertion order, that reached it.
C8_BestScoreStableArgmax ==
    (call.op = "best_score" /\ Len(stu.scores) >= 1) =>
        \E k \in 1..Len(stu.scores) :
            /\ \A j \in 1..Len(stu.scores) : stu.scores[j] <= stu.scores[k]
            /\ \A j \in 1..(k - 1) : stu.scores[j] < stu.scores[k]
            /\ call.ret = IF call.subjects
                          THEN Return(<<stu.scores[k], stu.subject_scores[k]>>)
                          ELSE Return(stu.scores[k])

\* best_score() has answered 95 for the attempts [88, 95, 72]
C8_Witness ==
    /\ call.op = "best_score"
    /\ ~call.subjects
    /\ stu.scores = <<88, 95, 72>>
    /\ call.ret = Return(95)

\* C9: for a Student with at least one attempt, last_score() returns the score (with
\* subjects=True also the subject vector) of the first attempt ever logged, and
\* logging further attempts never changes what last_score returns.
C9_LastScoreIsFirstLogged ==
    [][ /\ (call'.op = "log_attempt" /\ Len(stu.scores) = 0) =>
              /\ last_score(stu', FALSE) = Return(call'.score)
              /\ last_score(stu', TRUE) = Return(<<call'.score, call'.subjects>>)
        /\ (call'.op = "log_attempt" /\ Len(stu.scores) >= 1) =>
              \A b \in BOOLEAN : last_score(stu', b) = last_score(stu, b)
        /\ (call'.op = "last_score" /\ Len(stu.scores) >= 1) =>
              call'.ret = last_score(stu, call'.subjects)
      ]_vars

\* last_score() has answered 88, the first attempt, for the attempts [88, 95, 72]
C9_Witness ==
    /\ call.op = "last_score"
    /\ ~call.subjects
    /\ stu.scores = <<88, 95, 72>>
    /\ call.ret = Return(88)

(***************************************************************************)
(* class Cohort: the students dict is the sequence of its values, in       *)
(* insertion order (a dict keeps the position of a key that is assigned    *)
(* again)                                                                  *)
(***************************************************************************)
\* name in students
HasStudent(students, name) == \E i \in 1..Len(students) : students[i].name = name

\* the position of key `name`
StudentPos(students, name) == CHOOSE i \in 1..Len(students) : students[i].name = name

\* create_student as an upsert: a name already present is left alone
create_student_upsert(students, name, module, last_level, last_class) ==
    IF HasStudent(students, name)
    THEN students
    ELSE Append(students, NewStudent(name, module, last_level, last_class))

\* Cohort.create_student: self.students[name] = Student(...)
create_student(students, name, module, last_level, last_class) ==
    IF HasStudent(students, name)
    THEN [students EXCEPT ![StudentPos(students, name)] =
                              NewStudent(name, module, last_level, last_class)]
    ELSE Append(students, NewStudent(name, module, last_level, last_class))

\* Cohort.update_student; self.students[name] of an unknown name raises KeyError
update_student(students, name, score, subjects, mastery) ==
    IF ~HasStudent(students, name) THEN Raise("KeyError")
    ELSE Return([students EXCEPT ![StudentPos(students, name)] =
                                     log_attempt(@, score, subjects, mastery)])

\* the loop of filter_students from position i on; best_score() of a student
\* without attempts raises ValueError out of the loop
RECURSIVE FilterFrom(_, _, _, _, _, _)
FilterFrom(students, i, last_level, last_class, cutoff, slist) ==
    IF i > Len(students) THEN Return(slist)
    ELSE LET s == students[i] IN
         IF last_level # None /\ s.last_level # last_level[1]
         THEN FilterFrom(students, i + 1, last_level, last_class, cutoff, slist)
         ELSE IF last_class # None /\ s.last_class # last_class[1]
         THEN FilterFrom(students, i + 1, last_level, last_class, cutoff, slist)
         ELSE IF cutoff # None /\ ~best_score(s, FALSE).ok
         THEN best_score(s, FALSE)
         ELSE IF cutoff # None /\ best_score(s, FALSE).val < cutoff[1]
         THEN FilterFrom(students, i + 1, last_level, last_class, cutoff, slist)
         ELSE FilterFrom(students, i + 1, last_level, last_class, cutoff, Append(slist, s))

\* filter_students with the last_class criterion left out
filter_students_no_class(students, last_level, last_class, cutoff) ==
    FilterFrom(students, 1, last_level, None, cutoff, <<>>)

\* Cohort.filter_students
filter_students(students, last_level, last_class, cutoff) ==
    FilterFrom(students, 1, last_level, last_class, cutoff, <<>>)

\* Cohort.best_scores
cohort_best_scores(students, last_level, last_class, cutoff) ==
    LET f == filter_students(students, last_level, last_class, cutoff) IN
    IF ~f.ok THEN f
    ELSE IF \E i \in 1..Len(f.val) : ~best_score(f.val[i], FALSE).ok
         THEN Raise("ValueError")
    ELSE Return([i \in 1..Len(f.val) |-> best_score(f.val[i], FALSE).val])

\* Cohort.last_scores: the list it builds is [s.best_score() for s in ...]
cohort_last_scores(students, last_level, last_class, cutoff) ==
    LET f == filter_students(students, last_level, last_class, cutoff) IN
    IF ~f.ok THEN f
    ELSE IF \E i \in 1..Len(f.val) : ~best_score(f.val[i], FALSE).ok
         THEN Raise("ValueError")
    ELSE Return([i \in 1..Len(f.val) |-> best_score(f.val[i], FALSE).val])

(***************************************************************************)
(* A Cohort object and the calls made on it                                *)
(***************************************************************************)
MaxCohortAttempts == 3

CohortNames == {"a", "b", "c"}

\* (module, last_level, last_class) given to create_student
Categoricals == { <<-1, 0, 1>>, <<0, 1, 2>> }

CohortScores == {60, 70, 90}

CohortSubjects == [i \in 1..NumSubjects |-> 50]

LevelFilters == { None, Some(1) }

ClassFilters == { None, Some(1) }

Cutoffs == { None, Some(65) }

\* attempts held by all students of the cohort
RECURSIVE AttemptsFrom(_, _)
AttemptsFrom(students, i) ==
    IF i > Len(students) THEN 0
    ELSE Len(students[i].scores) + AttemptsFrom(students, i + 1)

\* The queries change nothing, so a run that goes on after a query reaches no cohort
\* that a run without the query does not reach: a query is the last call of a run.
CohortQueries == {"filter_students", "last_scores", "best_scores"}

CreateStudentCall ==
    /\ call.op \notin CohortQueries
    /\ \E name \in CohortNames, c \in Categoricals :
         /\ coh' = create_student(coh, name, c[1], c[2], c[3])
         /\ call' = [op |-> "create_student", name |-> name, module |-> c[1],
                     last_level |-> c[2], last_class |-> c[3],
                     existed |-> HasStudent(coh, name),
                     dropped |-> IF HasStudent(coh, name)
                                 THEN Len(coh[StudentPos(coh, name)].scores) ELSE 0]
    /\ UNCHANGED <<reporter_vars, stu>>

UpdateStudentCall ==
    /\ call.op \notin CohortQueries
    /\ AttemptsFrom(coh, 1) < MaxCohortAttempts
    /\ \E name \in CohortNames, score \in CohortScores :
         LET r == update_student(coh, name, score, CohortSubjects, None) IN
         /\ coh' = IF r.ok THEN r.val ELSE coh
         /\ call' = [op |-> "update_student", name |-> name, score |-> score,
                     ret |-> IF r.ok THEN Return(None) ELSE r]
    /\ UNCHANGED <<reporter_vars, stu>>

FilterStudentsCall ==
    /\ call.op \notin CohortQueries
    /\ \E last_level \in LevelFilters, last_class \in ClassFilters, cutoff \in Cutoffs :
         call' = [op |-> "filter_students", last_level |-> last_level,
                  last_class |-> last_class, cutoff |-> cutoff,
                  ret |-> filter_students(coh, last_level, last_class, cutoff)]
    /\ UNCHANGED <<reporter_vars, stu, coh>>

LastScoresCall ==
    /\ call.op \notin CohortQueries
    /\ \E last_level \in {None}, last_class \in ClassFilters, cutoff \in Cutoffs :
         call' = [op |-> "last_scores", last_level |-> last_level,
                  last_class |-> last_class, cutoff |-> cutoff,
                  ret |-> cohort_last_scores(coh, last_level, last_class, cutoff)]
    /\ UNCHANGED <<reporter_vars, stu, coh>>

NextCohort == CreateStudentCall \/ UpdateStudentCall \/ FilterStudentsCall \/ LastScoresCall

SpecCohort == Init /\ [][NextCohort]_vars

\* C2 as stated: Cohort.create_student called for a name that is already present in
\* the cohort is a no-op, so the stored Student keeps the first call's categorical
\* values and every attempt logged since.
C2_CreateStudentIsNoOp ==
    [][ (call'.op = "create_student" /\ HasStudent(coh, call'.name)) => coh' = coh ]_vars

\* C2 as amended: Cohort.create_student always stores a new Student with the values
\* of this call and no attempts under the name; for a name already present it takes
\* the place of the stored Student, whose values and attempts are dropped, and for a
\* new name it is added after the others; no other student changes.
C2_CreateStudentReplaces ==
    [][ call'.op = "create_student" =>
          LET fresh == NewStudent(call'.name, call'.module, call'.last_level,
                                  call'.last_class)
          IN  IF HasStudent(coh, call'.name)
              THEN /\ Len(coh') = Len(coh)
                   /\ \A i \in 1..Len(coh) :
                        coh'[i] = IF coh[i].name = call'.name THEN fresh ELSE coh[i]
              ELSE coh' = Append(coh, fresh)
      ]_vars

\* a second create_student for a present name has dropped logged attempts and stored
\* the second call's values
C2_Witness ==
    /\ call.op = "create_student"
    /\ call.existed
    /\ call.dropped >= 1
    /\ \E i \in 1..Len(coh) :
         /\ coh[i].name = call.name
         /\ coh[i].scores = <<>>
         /\ coh[i].module = call.module

\* C3: Cohort.last_scores returns, for each student that passes the filters, that
\* student's most recent score, Student.last_score(), the first recorded attempt.
C3_LastScoresAreLastScore ==
    (call.op = "last_scores" /\ call.ret.ok) =>
        LET f == filter_students(coh, call.last_level, call.last_class, call.cutoff)
        IN  call.ret.val = [i \in 1..Len(f.val) |-> last_score(f.val[i], FALSE).val]

\* C10: Cohort.filter_students returns exactly the students that satisfy every given
\* criterion (last_level equal, last_class equal, best score >= cutoff; None always
\* true), in the order of insertion into the cohort.  (When a cutoff is given and a
\* student selected by level and class has no attempt, its best_score() raises.)
C10_FilterStudents ==
    call.op = "filter_students" =>
        LET LevelOk(s) == call.last_level # None => s.last_level = call.last_level[1]
            ClassOk(s) == call.last_class # None => s.last_class = call.last_class[1]
            CutoffOk(s) == call.cutoff # None =>
                               \E j \in 1..Len(s.scores) : s.scores[j] >= call.cutoff[1]
            NoBest == /\ call.cutoff # None
                      /\ \E i \in 1..Len(coh) :
                           LevelOk(coh[i]) /\ ClassOk(coh[i]) /\ coh[i].scores = <<>>
        IN  IF NoBest
            THEN call.ret = Raise("ValueError")
            ELSE call.ret = Return(SelectSeq(coh,
                                LAMBDA s : LevelOk(s) /\ ClassOk(s) /\ CutoffOk(s)))

\* students scoring 60 / 70 / 90 with classes Algebra / Algebra / Trigonometry:
\* filter_students(last_class=1, cutoff=65) has returned only the student scoring 70
C10_Witness ==
    /\ call.op = "filter_students"
    /\ call.last_level = None /\ call.last_class = Some(1) /\ call.cutoff = Some(65)
    /\ Len(coh) = 3
    /\ coh[1].scores = <<60>> /\ coh[1].last_class = 1
    /\ coh[2].scores = <<70>> /\ coh[2].last_class = 1
    /\ coh[3].scores = <<90>> /\ coh[3].last_class = 2
    /\ call.ret = Return(<<coh[2]>>)

(***************************************************************************)
(* class CohortReporter: cohorts is the sequence of the dict's Cohort      *)
(* objects, [year, season, students], in creation order                    *)
(***************************************************************************)
\* ys in self.cohorts
HasCohort(cs, ys) == \E i \in 1..Len(cs) : <<cs[i].year, cs[i].season>> = ys

\* the position of key ys
CohortPos(cs, ys) == CHOOSE i \in 1..Len(cs) : <<cs[i].year, cs[i].season>> = ys

\* read_file: if ys not in self.cohorts: self.cohorts[ys] = Cohort(ys[0], ys[1])
ensure_cohort(cs, ys) ==
    IF HasCohort(cs, ys) THEN cs
    ELSE Append(cs, [year |-> ys[1], season |-> ys[2], students |-> <<>>])

\* read_file: the values gathered from a row after its term (name, score, subject
\* scores, module and mastery, last class data); int() of a field that is no number
\* raises ValueError.  Python's row[k] is row[k + 1] here.
gather_row(row) ==
    LET name == Remove(row[1], "\"")
        score_text == Remove(row[13], "%")
        subject_text == [i \in 1..NumSubjects |-> Remove(row[15 + 2 * (i - 1)], "%")]
        has_module == Len(row[36]) > 1
        has_class == Len(row[42]) > 1
    IN  IF ~IntOk(score_text) THEN Raise("ValueError")
        ELSE IF \E i \in 1..NumSubjects : ~IntOk(subject_text[i]) THEN Raise("ValueError")
        ELSE IF has_module /\ ~(IntOk(Remove(row[37], "%")) /\ IntOk(Remove(row[38], "%")))
             THEN Raise("ValueError")
        ELSE Return(
            [name |-> name,
             score |-> IntOf(score_text),
             subjects |-> [i \in 1..NumSubjects |-> IntOf(subject_text[i])],
             module |-> IF ~has_module THEN -1
                        ELSE IF Contains(kw_precalculus, lower(row[36])) THEN 0
                        ELSE IF Contains(kw_calculus, lower(row[36])) THEN 1
                        ELSE -1,
             mastery |-> IF has_module
                         THEN Some(<<IntOf(Remove(row[37], "%")), IntOf(Remove(row[38], "%"))>>)
                         ELSE None,
             level |-> IF ~has_class THEN -1
                       ELSE IF Contains(kw_high_school, lower(row[42])) THEN 0
                       ELSE IF Contains(kw_college, lower(row[42])) THEN 1
                       ELSE -1,
             cls |-> IF has_class THEN class_group(row[43]) ELSE -1])

\* read_file's last step creating the student for every row, present or not
add_row_always_create(cs, ys, g) ==
    LET k == CohortPos(cs, ys)
        created == create_student(cs[k].students, g.name, g.module, g.level, g.cls)
    IN  [cs EXCEPT ![k].students =
            update_student(created, g.name, g.score, g.subjects, g.mastery).val]

\* read_file: create the student if needed, then add the attempt to the student
add_row(cs, ys, g) ==
    LET k == CohortPos(cs, ys)
        created == IF ~HasStudent(cs[k].students, g.name)
                   THEN create_student(cs[k].students, g.name, g.module, g.level, g.cls)
                   ELSE cs[k].students
    IN  [cs EXCEPT ![k].students =
            update_student(created, g.name, g.score, g.subjects, g.mastery).val]

\* class Cohort defines no __getitem__: cohort[name] raises TypeError
cohort_getitem(cohort, name) == Raise("TypeError")

\* xs.index(v) of a list that holds v
ListHas(xs, v) == \E i \in 1..Len(xs) : xs[i] = v

\* CohortReporter.student_by_name
student_by_name(cs, slist, clist, name) ==
    IF ~ListHas(slist, name) THEN Return(None)
    ELSE LET index == Index(slist, name)
         IN  cohort_getitem(cs[CohortPos(cs, clist[index])], name)

\* student_by_index answering None for position 0 as well
student_by_index_from_one(cs, slist, clist, index) ==
    IF index <= 0 \/ index >= Len(slist) THEN Return(None)
    ELSE LET name == slist[index + 1]
             ys == clist[index + 1]
         IN  IF ~HasCohort(cs, ys) THEN Raise("KeyError")
             ELSE IF ~HasStudent(cs[CohortPos(cs, ys)].students, name) THEN Raise("KeyError")
             ELSE LET students == cs[CohortPos(cs, ys)].students
                  IN  Return(Some(students[StudentPos(students, name)]))

\* CohortReporter.student_by_index; Python's position index is position index + 1 here
student_by_index(cs, slist, clist, index) ==
    IF index < 0 \/ index >= Len(slist) THEN Return(None)
    ELSE LET name == slist[index + 1]
             ys == clist[index + 1]
         IN  IF ~HasCohort(cs, ys) THEN Raise("KeyError")
             ELSE IF ~HasStudent(cs[CohortPos(cs, ys)].students, name) THEN Raise("KeyError")
             ELSE LET students == cs[CohortPos(cs, ys)].students
                  IN  Return(Some(students[StudentPos(students, name)]))

\* best_scores looking at every cohort, whatever cohort_list names
RECURSIVE reporter_best_scores_all_cohorts(_, _, _, _, _)
reporter_best_scores_all_cohorts(cs, last_level, last_class, cutoff, terms) ==
    IF Len(cs) = 0 THEN Return(<<>>)
    ELSE LET head == cohort_best_scores(cs[1].students, last_level, last_class, cutoff)
             rest == reporter_best_scores_all_cohorts(Tail(cs), last_level, last_class,
                                                      cutoff, terms)
         IN  IF ~head.ok THEN head
             ELSE IF ~rest.ok THEN rest
             ELSE Return(head.val \o rest.val)

\* the loop of CohortReporter.best_scores from cohort i on
RECURSIVE BestScoresFrom(_, _, _, _, _, _, _)
BestScoresFrom(cs, i, last_level, last_class, cutoff, terms, scores) ==
    IF i > Len(cs) THEN Return(scores)
    ELSE IF Len(terms) > 0 /\ ~ListHas(terms, <<cs[i].year, cs[i].season>>)
    THEN BestScoresFrom(cs, i + 1, last_level, last_class, cutoff, terms, scores)
    ELSE LET b == cohort_best_scores(cs[i].students, last_level, last_class, cutoff)
         IN  IF ~b.ok THEN b
             ELSE BestScoresFrom(cs, i + 1, last_level, last_class, cutoff, terms,
                                 scores \o b.val)

\* CohortReporter.best_scores
reporter_best_scores(cs, last_level, last_class, cutoff, terms) ==
    BestScoresFrom(cs, 1, last_level, last_class, cutoff, terms, <<>>)

(***************************************************************************)
(* The lines of a report file                                              *)
(***************************************************************************)
MaxRows == 3

NumFields == 44

Tab == "\t"

Newline == "\n"

Quote == "\""

RowNames == { <<"A">>, <<"B">> }

RowDates == { <<"0","3","/","0","1","/","2","0","2","1">>,
              <<"1","0","/","0","2","/","2","0","2","3">>,
              <<"2","0","2","1","-","0","3","-","0","1">> }

RowScores == { <<"7","5","%">>, <<"8","8","%">> }

RowSubject == <<"5","0","%">>

\* columns 35, 36, 37 (module, initial and current mastery) and 41, 42 (last class)
RowProfiles ==
    { << <<"-">>, <<"-">>, <<"-">>, <<"-">>, <<"-">> >>,
      << <<"P","r","e","c","a","l","c","u","l","u","s"," ","P","r","e","p">>,
         <<"4","0","%">>, <<"8","0","%">>,
         <<"H","i","g","h"," ","S","c","h","o","o","l">>,
         <<"C","o","l","l","e","g","e"," ","A","l","g","e","b","r","a">> >>,
      << <<"C","a","l","c","u","l","u","s"," ","P","r","e","p">>,
         <<"4","0","%">>, <<"8","0","%">>,
         <<"C","o","l","l","e","g","e">>,
         <<"C","a","l","c","u","l","u","s"," ","I","I","I">> >> }

\* the 44 columns of a student row; the columns read_file does not read are empty
RowFields(name, date, score, p) ==
    [k \in 1..NumFields |->
        IF k = 1 THEN <<Quote>> \o name \o <<Quote>>
        ELSE IF k = 9 THEN date
        ELSE IF k = 13 THEN score
        ELSE IF k \in {15 + 2 * i : i \in 0..(NumSubjects - 1)} THEN RowSubject
        ELSE IF k \in 36..38 THEN p[k - 35]
        ELSE IF k \in 42..43 THEN p[k - 38]
        ELSE <<>>]

RECURSIVE JoinFrom(_, _, _)
JoinFrom(fields, sep, k) ==
    IF k > Len(fields) THEN <<>>
    ELSE IF k = Len(fields) THEN fields[k]
    ELSE fields[k] \o <<sep>> \o JoinFrom(fields, sep, k + 1)

\* the line of the file holding these columns
BuildLine(fields) == JoinFrom(fields, Tab, 1) \o <<Newline>>

DataLines ==
    { BuildLine(RowFields(name, date, score, p)) :
        name \in RowNames, date \in RowDates, score \in RowScores, p \in RowProfiles }
    \cup
    \* a row whose placement result is no number
    { BuildLine(RowFields(<<"A">>, <<"0","3","/","0","1","/","2","0","2","1">>,
                          <<"N","/","A">>, <<<<"-">>, <<"-">>, <<"-">>, <<"-">>, <<"-">>>>)) }

OtherLines ==
    { BuildLine([k \in 1..NumFields |-> IF k = 1 THEN <<"N","a","m","e">> ELSE <<"x">>]),
      <<Newline>> }

Lines == DataLines \cup OtherLines

\* What read_file computes from a line before it touches the reporter: whether the
\* line begins with a quotation mark, and for such a line row = line.split('\t'),
\* date_group(row[8]) and the values gathered from the row.
\* read_line with every line of at least NumFields columns taken as a data row
read_line_any_first_char(line) ==
    LET row == Split(line, Tab)
    IN  IF Len(row) < NumFields THEN [data |-> FALSE, first_char |-> line[1]]
        ELSE [data |-> TRUE, first_char |-> line[1],
              date_parts |-> Len(Split(row[9], "/")),
              term |-> date_group(row[9]), row |-> gather_row(row)]

\* first_char and date_parts describe the line read, for the properties below
read_line(line) ==
    IF line[1] # Quote THEN [data |-> FALSE, first_char |-> line[1]]
    ELSE LET row == Split(line, Tab)
         IN  [data |-> TRUE, first_char |-> line[1],
              date_parts |-> Len(Split(row[9], "/")),
              term |-> date_group(row[9]), row |-> gather_row(row)]

\* the lines a file is made of, as read_file reads them (computed once)
ReadLines == { read_line(line) : line \in Lines }

(***************************************************************************)
(* CohortReporter.read_file, one line of the file per step, and the calls  *)
(* made on the reporter once read_file has returned or raised              *)
(***************************************************************************)
\* the first line of the file is skipped, whatever it holds
ReadFirstLine ==
    /\ pc = "reading" /\ first
    /\ \E line \in ReadLines :
         call' = [op |-> "read_line", kind |-> "first", data |-> line.data,
                     first_char |-> line.first_char]
    /\ first' = FALSE
    /\ UNCHANGED <<cohorts, student_list, cohort_list, pc, total_students,
                   total_attempts, stu, coh>>

\* a later line that does not begin with a quotation mark is skipped
SkipLine ==
    /\ pc = "reading" /\ ~first
    /\ \E line \in ReadLines :
         /\ ~line.data
         /\ call' = [op |-> "read_line", kind |-> "skipped", data |-> FALSE,
                        first_char |-> line.first_char]
    /\ UNCHANGED <<reporter_vars, stu, coh>>

\* a later line that begins with a quotation mark is a student row
ReadRow ==
    /\ pc = "reading" /\ ~first
    /\ total_attempts < MaxRows
    /\ \E line \in ReadLines :
         /\ line.data
         /\ LET t == line.term
            IN  IF ~t.ok
                THEN /\ pc' = "error"
                     /\ call' = [op |-> "read_line", kind |-> "raised", data |-> TRUE,
                                 err |-> t.err, at |-> "date_group",
                                 first_char |-> line.first_char,
                                 date_parts |-> line.date_parts]
                     /\ UNCHANGED <<cohorts, student_list, cohort_list, first,
                                    total_students, total_attempts>>
                ELSE LET ys == t.val
                         cs == ensure_cohort(cohorts, ys)
                         g == line.row
                     IN  IF ~g.ok
                         THEN /\ cohorts' = cs
                              /\ pc' = "error"
                              /\ call' = [op |-> "read_line", kind |-> "raised",
                                          data |-> TRUE, err |-> g.err, at |-> "int",
                                          first_char |-> line.first_char,
                                          date_parts |-> line.date_parts]
                              /\ UNCHANGED <<student_list, cohort_list, first,
                                             total_students, total_attempts>>
                         ELSE LET new == ~HasStudent(cs[CohortPos(cs, ys)].students,
                                                     g.val.name)
                              IN  /\ cohorts' = add_row(cs, ys, g.val)
                                  /\ student_list' = IF new THEN Append(student_list, g.val.name)
                                                     ELSE student_list
                                  /\ cohort_list' = IF new THEN Append(cohort_list, ys)
                                                    ELSE cohort_list
                                  /\ total_students' = IF new THEN total_students + 1
                                                       ELSE total_students
                                  /\ total_attempts' = total_attempts + 1
                                  /\ call' = [op |-> "read_line", kind |-> "row",
                                              data |-> TRUE, ys |-> ys, row |-> g.val,
                                              first_char |-> line.first_char,
                                              date_parts |-> line.date_parts]
                                  /\ UNCHANGED <<first, pc>>
    /\ UNCHANGED <<stu, coh>>

\* the file has no further line: read_file returns
EndOfFile ==
    /\ pc = "reading"
    /\ pc' = "done"
    /\ call' = [op |-> "read_file_returns"]
    /\ UNCHANGED <<cohorts, student_list, cohort_list, first, total_students,
                   total_attempts, stu, coh>>

QueryNames == RowNames \cup { <<"Z">> }

StudentByNameCall ==
    /\ pc \in {"done", "error"}
    /\ call.op \in {"read_line", "read_file_returns"}
    /\ \E name \in QueryNames :
         call' = [op |-> "student_by_name", name |-> name,
                  ret |-> student_by_name(cohorts, student_list, cohort_list, name)]
    /\ UNCHANGED <<reporter_vars, stu, coh>>

\* the filters and the allow-lists of terms given to the reporter's best_scores
ReporterFilters == { <<None, None, None>>, <<Some(0), None, Some(80)>> }

TermLists == { <<>>, << <<24, 2>> >>, << <<99, 1>> >> }

ReporterBestScoresCall ==
    /\ pc \in {"done", "error"}
    /\ call.op \in {"read_line", "read_file_returns"}
    /\ \E f \in ReporterFilters, terms \in TermLists :
         call' = [op |-> "best_scores", last_level |-> f[1], last_class |-> f[2],
                  cutoff |-> f[3], cohort_list |-> terms,
                  ret |-> reporter_best_scores(cohorts, f[1], f[2], f[3], terms)]
    /\ UNCHANGED <<reporter_vars, stu, coh>>

QueryIndexes == (0 - 1)..MaxRows

StudentByIndexCall ==
    /\ pc \in {"done", "error"}
    /\ call.op \in {"read_line", "read_file_returns"}
    /\ \E index \in QueryIndexes :
         call' = [op |-> "student_by_index", index |-> index,
                  ret |-> student_by_index(cohorts, student_list, cohort_list, index)]
    /\ UNCHANGED <<reporter_vars, stu, coh>>

NextIngest ==
    \/ ReadFirstLine \/ SkipLine \/ ReadRow \/ EndOfFile
    \/ StudentByNameCall \/ ReporterBestScoresCall \/ StudentByIndexCall

SpecIngest == Init /\ [][NextIngest]_vars

\* the Student stored under `name` in the cohort of term ys
StudentOf(cs, ys, name) ==
    LET students == cs[CohortPos(cs, ys)].students
    IN  students[StudentPos(students, name)]

\* C1: after read_file has processed any sequence of data rows, all rows of one
\* student name are held by a single Student in a single cohort: no name is a key of
\* the student dicts of two cohorts, and no name occurs twice in student_list.
C1_OneStudentPerName ==
    /\ \A i, j \in 1..Len(cohorts) :
         i # j => \A k \in 1..Len(cohorts[i].students) :
                      ~HasStudent(cohorts[j].students, cohorts[i].students[k].name)
    /\ \A i, j \in 1..Len(student_list) : i # j => student_list[i] # student_list[j]

\* C4: student_by_name(name) returns the Student of that name, from the cohort
\* recorded at the name's first appearance, for every ingested name, returns None
\* for every other name, and never raises.
C4_StudentByName ==
    call.op = "student_by_name" =>
        IF ListHas(student_list, call.name)
        THEN call.ret = Return(StudentOf(cohorts,
                                         cohort_list[Index(student_list, call.name)],
                                         call.name))
        ELSE call.ret = Return(None)

\* C7: during ingestion a Student's module, last_level and last_class are those of
\* the first data row of that (name, term) and no later row changes them, whatever
\* values it carries; a later row only appends its attempt.
C7_CategoricalsFixed ==
    [][ /\ Len(cohorts') >= Len(cohorts)
        /\ \A i \in 1..Len(cohorts) :
             /\ cohorts'[i].year = cohorts[i].year
             /\ cohorts'[i].season = cohorts[i].season
             /\ Len(cohorts'[i].students) >= Len(cohorts[i].students)
             /\ \A j \in 1..Len(cohorts[i].students) :
                  /\ cohorts'[i].students[j].name = cohorts[i].students[j].name
                  /\ cohorts'[i].students[j].module = cohorts[i].students[j].module
                  /\ cohorts'[i].students[j].last_level = cohorts[i].students[j].last_level
                  /\ cohorts'[i].students[j].last_class = cohorts[i].students[j].last_class
        /\ (call'.op = "read_line" /\ call'.kind = "row") =>
             LET r == call'.row
                 after == StudentOf(cohorts', call'.ys, r.name)
             IN  IF HasCohort(cohorts, call'.ys)
                    /\ HasStudent(cohorts[CohortPos(cohorts, call'.ys)].students, r.name)
                 THEN LET before == StudentOf(cohorts, call'.ys, r.name)
                      IN  /\ after.scores = Append(before.scores, r.score)
                          /\ after.subject_scores = Append(before.subject_scores, r.subjects)
                 ELSE /\ after.module = r.module
                      /\ after.last_level = r.level
                      /\ after.last_class = r.cls
                      /\ after.scores = <<r.score>>
                      /\ after.subject_scores = <<r.subjects>>
      ]_vars

\* a later row of a student carrying another module, level and class has been read:
\* the Student holds both attempts and still has the first row's values
C7_Witness ==
    /\ call.op = "read_line" /\ call.kind = "row"
    /\ LET s == StudentOf(cohorts, call.ys, call.row.name)
       IN  /\ Len(s.scores) >= 2
           /\ s.module # call.row.module
           /\ s.last_level # call.row.level
           /\ s.last_class # call.row.cls

\* xs[1] \o xs[2] \o ... for a sequence of sequences
RECURSIVE Flatten(_)
Flatten(xs) == IF Len(xs) = 0 THEN <<>> ELSE xs[1] \o Flatten(Tail(xs))

\* C11: CohortReporter.best_scores(filters, cohort_list) is the concatenation, in
\* cohort creation order, of Cohort.best_scores(filters) over the cohorts whose term is
\* in cohort_list (all cohorts when cohort_list is empty); its length is the number of
\* students of those cohorts that pass the filters; with no such student (also when
\* cohort_list names only terms without a cohort) it is the empty list, not an error.
C11_BestScoresConcatenate ==
    call.op = "best_scores" =>
        LET Selected(i) ==
                \/ call.cohort_list = <<>>
                \/ \E k \in 1..Len(call.cohort_list) :
                     call.cohort_list[k] = <<cohorts[i].year, cohorts[i].season>>
            Passes(s) ==
                /\ call.last_level # None => s.last_level = call.last_level[1]
                /\ call.last_class # None => s.last_class = call.last_class[1]
                /\ call.cutoff # None =>
                       \E j \in 1..Len(s.scores) : s.scores[j] >= call.cutoff[1]
            matching == { <<i, j>> \in (1..Len(cohorts)) \X (1..MaxRows + 1) :
                            /\ Selected(i)
                            /\ j <= Len(cohorts[i].students)
                            /\ Passes(cohorts[i].students[j]) }
        IN  /\ call.ret.ok
            /\ call.ret.val =
                 Flatten([i \in 1..Len(cohorts) |->
                            IF Selected(i)
                            THEN cohort_best_scores(cohorts[i].students, call.last_level,
                                                    call.last_class, call.cutoff).val
                            ELSE <<>>])
            /\ Len(call.ret.val) = Cardinality(matching)
            /\ matching = {} => call.ret.val = <<>>

\* with students in the cohorts of two terms, best_scores with a cohort_list naming
\* the later-created one has returned the best score of that cohort's student only
C11_Witness ==
    /\ call.op = "best_scores"
    /\ call.cohort_list = << <<24, 2>> >>
    /\ call.last_level = None /\ call.cutoff = None
    /\ Len(cohorts) = 2
    /\ <<cohorts[2].year, cohorts[2].season>> = <<24, 2>>
    /\ Len(cohorts[1].students) = 1
    /\ Len(cohorts[2].students) = 1
    /\ cohorts[2].students[1].scores = <<75, 88>>
    /\ call.ret = Return(<<88>>)

\* C12: class_group is case-insensitive over its whole rule table, the absence marker
\* included: class_group(t) = class_group(lowercase(t)) for every text t, and a text
\* holding "no data" in any case is Unknown (-1).
C12_CaseInsensitive ==
    call.op = "class_group" =>
        /\ call.ret = class_group(lower(call.text))
        /\ Contains(kw_no_data, lower(call.text)) => call.ret = -1

\* C13: for a text of length >= 2 that does not hold "no data": a text holding
\* "algebra" (in any case) and not "linear" is Algebra (1) whatever other keyword it
\* holds; a text holding "linear" is never Algebra: it falls to the later rules, and is
\* Other (0) when it holds none of their keywords.
C13_AlgebraUnlessLinear ==
    (call.op = "class_group" /\ Len(call.text) >= 2 /\ ~Contains(kw_no_data, call.text)) =>
        LET l == lower(call.text)
            later == \/ Contains(kw_trigonometry, l) \/ Contains(kw_geometry, l)
                     \/ Contains(kw_precalculus, l) \/ Contains(kw_calculus, l)
                     \/ Contains(kw_statistics, l) \/ Contains(kw_probability, l)
                     \/ Contains(kw_discrete, l)
        IN  /\ (Contains(kw_algebra, l) /\ ~Contains(kw_linear, l)) => call.ret = 1
            /\ Contains(kw_linear, l) => call.ret # 1
            /\ (Contains(kw_linear, l) /\ ~later) => call.ret = 0

\* class_group has answered Other for a text holding both "Linear" and "Algebra"
C13_Witness ==
    /\ call.op = "class_group"
    /\ Contains(kw_linear, lower(call.text))
    /\ Contains(kw_algebra, lower(call.text))
    /\ ~Contains(kw_no_data, lower(call.text))
    /\ call.ret = 0

(***************************************************************************)
(* cohort_to_int and int_to_cohort                                         *)
(***************************************************************************)
cohort_to_int(year, season, base) == 3 * (year - base) + season

\* int_to_cohort with a quotient and a remainder that round towards zero
int_to_cohort_truncating(index, base) ==
    IF index >= 0 THEN <<(index \div 3) + base, index % 3>>
    ELSE <<(0 - ((0 - index) \div 3)) + base, 0 - ((0 - index) % 3)>>

\* Python's // and % round towards minus infinity, as \div and % do
int_to_cohort(index, base) == <<(index \div 3) + base, index % 3>>

TermYears == 10..24

TermSeasons == 0..2

TermBases == {0, 16, 30}

CohortToIntCall ==
    \E year \in TermYears, season \in TermSeasons, base \in TermBases :
        /\ call' = [op |-> "cohort_to_int", year |-> year, season |-> season,
                    base |-> base, index |-> cohort_to_int(year, season, base),
                    back |-> int_to_cohort(cohort_to_int(year, season, base), base)]
        /\ UNCHANGED <<reporter_vars, stu, coh>>

NextTerm == CohortToIntCall

SpecTerm == Init /\ [][NextTerm]_vars

\* C14: int_to_cohort(cohort_to_int(year, season, base), base) = (year, season) for
\* every year, every base (a year before the base, with a negative ordinal, included)
\* and every season in 0..2; and cohort_to_int is strictly increasing in
\* (year, season) ordered by year first, then season.
C14_TermOrdinalRoundTrip ==
    call.op = "cohort_to_int" =>
        /\ call.back = <<call.year, call.season>>
        /\ \A y2 \in TermYears, s2 \in TermSeasons :
             (call.year < y2 \/ (call.year = y2 /\ call.season < s2))
                 => call.index < cohort_to_int(y2, s2, call.base)

\* a term of a year before the base year, not its first season, has been turned into
\* a negative ordinal and back
C14_Witness ==
    /\ call.op = "cohort_to_int"
    /\ call.year < call.base
    /\ call.season = 1
    /\ call.index < 0
    /\ call.back = <<call.year, 1>>

\* C15: a data row whose end-date field does not split on "/" into exactly three parts
\* ends read_file in an error: the row adds no cohort, no student, no list entry and
\* no attempt, the earlier records stay as they were, and no later line is processed.
C15_MalformedDateStopsReading ==
    [][ /\ (/\ ~first
            /\ call'.op = "read_line"
            /\ call'.first_char = Quote
            /\ call'.date_parts # 3)
           => /\ call'.kind = "raised"
              /\ pc' = "error"
              /\ UNCHANGED <<cohorts, student_list, cohort_list,
                             total_students, total_attempts>>
        /\ pc = "error"
           => /\ pc' = "error"
              /\ call'.op # "read_line"
              /\ UNCHANGED <<cohorts, student_list, cohort_list,
                             total_students, total_attempts>> ]_vars

\* after two rows were read, a row with a date of one part has ended the reading
C15_Witness ==
    /\ pc = "error"
    /\ call.op = "read_line"
    /\ call.kind = "raised"
    /\ call.date_parts = 1
    /\ total_attempts = 2
    /\ Len(student_list) = 2

\* C16: after ingestion every Student that holds at least one mastery pair has a
\* module other than None (-1).
C16_MasteryImpliesModule ==
    \A i \in 1..Len(cohorts) : \A j \in 1..Len(cohorts[i].students) :
        cohorts[i].students[j].masteries # <<>> => cohorts[i].students[j].module # -1

\* C17: the first line of the file is never processed as data, even when it starts
\* with a double quote; every later line whose first character is not a double quote
\* is skipped without an error; in both cases the cohorts (with their students, their
\* attempts and attributes), student_list, cohort_list and the counters stay as they
\* were and the reading goes on.
C17_FirstAndUnquotedLinesSkipped ==
    [][ (/\ pc = "reading"
         /\ call'.op = "read_line"
         /\ (first \/ call'.first_char # Quote))
        => /\ pc' = "reading"
           /\ ~first'
           /\ UNCHANGED <<cohorts, student_list, cohort_list,
                          total_students, total_attempts>> ]_vars

\* a first line that starts with a double quote and holds a whole data row has been
\* read and nothing was recorded
C17_Witness ==
    /\ call.op = "read_line"
    /\ call.kind = "first"
    /\ call.first_char = Quote
    /\ call.data
    /\ ~first
    /\ pc = "reading"
    /\ cohorts = <<>>
    /\ student_list = <<>>
    /\ total_attempts = 0

\* the attempts held, one <<cohort, student, attempt>> position each
AttemptPositions ==
    UNION { UNION { { <<i, j, k>> : k \in 1..Len(cohorts[i].students[j].scores) } :
                    j \in 1..Len(cohorts[i].students) } :
            i \in 1..Len(cohorts) }

\* the Student objects held, one <<cohort, student>> position each
StudentPositions ==
    UNION { { <<i, j>> : j \in 1..Len(cohorts[i].students) } : i \in 1..Len(cohorts) }

\* C18: after every processed data row, every Student has at least one attempt and
\* as many overall scores as subject-score vectors; the attempts of all students add
\* up to the number of data rows processed so far (total_attempts), which is at least
\* the number of Student objects.
C18_AttemptsMatchRows ==
    /\ \A i \in 1..Len(cohorts) : \A j \in 1..Len(cohorts[i].students) :
         LET s == cohorts[i].students[j]
         IN  /\ Len(s.scores) >= 1
             /\ Len(s.scores) = Len(s.subject_scores)
             /\ \A k \in 1..Len(s.subject_scores) : Len(s.subject_scores[k]) = NumSubjects
    /\ Cardinality(AttemptPositions) = total_attempts
    /\ total_attempts >= Cardinality(StudentPositions)

\* three rows were processed into two students, one of them with two attempts
C18_Witness ==
    /\ total_attempts = 3
    /\ Cardinality(StudentPositions) = 2
    /\ \E i \in 1..Len(cohorts) : \E j \in 1..Len(cohorts[i].students) :
         /\ Len(cohorts[i].students[j].scores) = 2
         /\ Len(cohorts[i].students[j].subject_scores) = 2

\* the <<name, term>> pair at position i of student_list and cohort_list
ListedPair(i) == <<student_list[i], cohort_list[i]>>

\* student_list and cohort_list as a state: equal length, no pair twice, exactly the
\* pairs of the Students held, and student_by_index answering from them
C19_ListsMatchStudents ==
    /\ Len(student_list) = Len(cohort_list)
    /\ \A i, j \in 1..Len(student_list) : i # j => ListedPair(i) # ListedPair(j)
    /\ { ListedPair(i) : i \in 1..Len(student_list) }
         = { <<cohorts[p[1]].students[p[2]].name,
               <<cohorts[p[1]].year, cohorts[p[1]].season>>>> : p \in StudentPositions }
    /\ call.op = "student_by_index" =>
         IF 0 <= call.index /\ call.index < Len(student_list)
         THEN /\ call.ret.ok
              /\ call.ret.val = Some(StudentOf(cohorts, cohort_list[call.index + 1],
                                               student_list[call.index + 1]))
              /\ call.ret.val[1].name = student_list[call.index + 1]
         ELSE call.ret = Return(None)

\* student_list and cohort_list in a step: a processed row appends its pair when the
\* pair is not listed yet, and nothing else changes the lists
C19_AppendOnFirstAppearance ==
    IF total_attempts' = total_attempts + 1
    THEN LET pr == <<call'.row.name, call'.ys>>
         IN  IF \E i \in 1..Len(student_list) : ListedPair(i) = pr
             THEN UNCHANGED <<student_list, cohort_list>>
             ELSE /\ student_list' = Append(student_list, pr[1])
                  /\ cohort_list' = Append(cohort_list, pr[2])
    ELSE UNCHANGED <<student_list, cohort_list>>

\* C19: student_list and cohort_list have the same length; their <<name, term>> pairs
\* are pairwise distinct, stand in the order of first appearance in the file and are
\* exactly the pairs of the Students held in the cohorts; student_by_index(i) returns
\* the Student named student_list[i] of the cohort cohort_list[i] for
\* 0 <= i < len(student_list) and None for every other i.
C19_ParallelLists ==
    /\ []C19_ListsMatchStudents
    /\ [][C19_AppendOnFirstAppearance]_vars

\* with two students listed, student_by_index(1) has returned the second one
C19_Witness ==
    /\ call.op = "student_by_index"
    /\ call.index = 1
    /\ Len(student_list) = 2
    /\ call.ret.ok
    /\ call.ret.val # None
    /\ call.ret.val[1].name = student_list[2]
    /\ Len(call.ret.val[1].scores) >= 1

====
